---- MODULE Spec2Model ----
(***************************************************************************)
(* Research-brief pipeline: the LangGraph workflow of src/core/graph.py    *)
(* driving the stage functions of src/core/nodes.py over a ResearchState   *)
(* (src/core/state.py), with the search tools of src/core/tools.py and the *)
(* history store of src/models/storage.py.                                 *)
(*                                                                         *)
(* Execution model.  A compiled StateGraph runs in supersteps: every node  *)
(* scheduled for a superstep is handed a ResearchState built from the      *)
(* channel values as they stood when the superstep began, returns a        *)
(* partial update (a dict), and the updates are merged into the channels   *)
(* at the end of the superstep.  Only the keys of the returned dict are    *)
(* merged.  ResearchState.errors has no reducer and no stage ever returns  *)
(* an "errors" key, so state.errors.append(...) inside a stage changes the *)
(* stage's own ResearchState object only; `recorded` keeps those messages. *)
(* An Optional[T] value is a sequence of length at most one.               *)
(***************************************************************************)
EXTENDS Integers, Sequences, FiniteSets, TLC

VARIABLES
    state,        \* channel values: the ResearchState of the run
    pending,      \* state with the updates of the nodes run so far in this superstep
    active,       \* nodes scheduled for the current superstep
    ran,          \* nodes of the current superstep that have run
    next,         \* nodes triggered for the following superstep
    pc,           \* "running" | "done" (END reached) | "raised" (a stage raised)
    step,         \* superstep number
    history,      \* the stored history file of state.user_id
    caller,       \* who built the initial state: "api" | "cli" | "direct"
    input,        \* the request the run was created with
    recorded,     \* messages stages passed to state.errors.append, in order
    executed,     \* log of the executions: the set of [node, step]
    junctions,    \* log of [node, step, plan, errors, to]: the state each execution's
                  \* edges saw (plan set, errors non-empty) and the nodes they triggered
    ctxOutcome,   \* what summarize_context met
    searchKinds,  \* the kind of each step's search response
    searchResps,  \* a call of execute_search on its own: what the search client
                  \* does for each step's query
    healthy,      \* every capability call so far succeeded
    histReads,    \* calls of get_user_history
    histWrites,   \* writes of the history file
    genCalls,     \* Text-Generation calls
    saveOutcome,  \* what the save of synthesize_brief met, "not attempted" if none
    synthOutcome, \* what synthesize_brief met: "no_summaries", or its generation's outcome
    fetchArgs,    \* a call of fetch_with_fallback: url, snippet, what the network does
    fetchResult,  \* what that call returned, None before it returns
    savers,       \* the save_brief calls in flight: position, history read, brief
    appended,     \* the records written by completed save_brief calls, in order
    overlapped,   \* some save_brief call began while another was in flight
    active_requests,  \* the API's request table: request_id -> entry
    finals,       \* what research_graph.ainvoke gave for each request
    cliRun        \* the CLI command: what ainvoke gave and what was reported

vars == <<state, pending, active, ran, next, pc, step, history, caller, input,
          recorded, executed, junctions, ctxOutcome, searchKinds, searchResps, healthy,
          histReads, histWrites, genCalls, saveOutcome, synthOutcome,
          fetchArgs, fetchResult, savers, appended, overlapped,
          active_requests, finals, cliRun>>

\* the variables of one workflow run, of the content fetcher, of the history
\* store's callers and of the entry adapters
runVars == <<state, pending, active, ran, next, pc, step, caller, input,
             recorded, executed, junctions, ctxOutcome, searchKinds, searchResps, healthy,
             histReads, histWrites, genCalls, saveOutcome, synthOutcome>>
fetchVars == <<fetchArgs, fetchResult>>
storeVars == <<savers, appended, overlapped>>
adapterVars == <<active_requests, finals, cliRun>>

----------------------------------------------------------------------------
\* Bounds of the model

MaxHits == 3
MaxInitHistory == 1
MaxSaves == 11

----------------------------------------------------------------------------
\* Values

None == <<>>
Some(x) == <<x>>

Topics == {"quantum computing"}
OffTopic == "another topic"
Depths == {3}
UserIds == {"u1", ""}
ValidUrl == "https://example.com"
Urls == {"", ValidUrl}

END == "__end__"
Nodes == {"summarize_context", "create_plan", "execute_search",
          "summarize_sources", "synthesize_brief", "handle_errors"}

Min(a, b) == IF a < b THEN a ELSE b
Take(s, n) == SubSeq(s, 1, Min(n, Len(s)))
\* mutant: the oldest entries are kept
LastN_oldest(s, n) == SubSeq(s, 1, Min(n, Len(s)))

LastN(s, n) == IF Len(s) > n THEN SubSeq(s, Len(s) - n + 1, Len(s)) ELSE s
SeqsUpTo(S, n) == UNION {[1..k -> S] : k \in 0..n}

\* pydantic HttpUrl validation of Reference.url and SourceSummary.url
IsHttpUrl(u) == u = ValidUrl

\* UserContext declares these fields; assigning any other attribute raises
UserContextFields == {"user_id", "previous_briefs", "research_interests",
                      "last_interaction"}
SetAttrRaises(field) == field \notin UserContextFields

\* ResearchState(**request) with the schema's defaults
ResearchState(req) ==
    [topic |-> req.topic, depth |-> req.depth, user_id |-> req.user_id,
     follow_up |-> req.follow_up,
     user_context |-> None, research_plan |-> None,
     search_results |-> <<>>, source_summaries |-> <<>>,
     final_brief |-> None, current_step |-> "start", errors |-> <<>>]

\* merge of a node's partial update: only the returned keys are overwritten
Apply(s, upd) == [k \in DOMAIN s |-> IF k \in DOMAIN upd THEN upd[k] ELSE s[k]]

----------------------------------------------------------------------------
\* History store

MaxKept == 10

OldEntry == [brief_id |-> "old", topic |-> "quantum computing"]
InitHistories == SeqsUpTo({OldEntry}, MaxInitHistory)

\* get_user_history: a missing file and a failed read both give []
get_user_history(hist, outcome) == IF outcome = "read_fail" THEN <<>> ELSE hist

BriefSummary(brief) == [brief_id |-> brief.brief_id, topic |-> brief.topic]

\* save_brief: the file content afterwards
save_brief(hist, brief, outcome) ==
    IF outcome \in {"ctor_fail", "write_fail"} THEN hist
    ELSE LastN(Append(get_user_history(hist, outcome), BriefSummary(brief)), MaxKept)

----------------------------------------------------------------------------
\* Stage: summarize_context

ContextStoreOutcomes == {"ok", "ctor_fail", "read_fail"}
GenOutcomes == {"ok", "fail"}

UserContext(s, user_history) ==
    [user_id |-> s.user_id, previous_briefs |-> user_history]

summarize_context(s, hist, store, gen) ==
    IF ~s.follow_up
    THEN [upd |-> [user_context |-> None], msgs |-> <<>>, reads |-> 0,
          gens |-> 0, outcome |-> "skipped"]
    ELSE IF store = "ctor_fail"
    THEN [upd |-> [user_context |-> None], msgs |-> <<"Context error">>,
          reads |-> 0, gens |-> 0, outcome |-> "ctor_fail"]
    ELSE LET user_history == get_user_history(hist, store) IN
         IF user_history = <<>>
         THEN [upd |-> [user_context |-> None], msgs |-> <<>>, reads |-> 1,
               gens |-> 0,
               outcome |-> IF store = "read_fail" THEN "read_fail" ELSE "no_history"]
         ELSE IF gen = "fail"
         THEN [upd |-> [user_context |-> None], msgs |-> <<"Context error">>,
               reads |-> 1, gens |-> 1, outcome |-> "gen_fail"]
         ELSE IF SetAttrRaises("metadata")
         THEN [upd |-> [user_context |-> None], msgs |-> <<"Context error">>,
               reads |-> 1, gens |-> 1, outcome |-> "setattr_fail"]
         ELSE [upd |-> [user_context |-> Some(UserContext(s, user_history))],
               msgs |-> <<>>, reads |-> 1, gens |-> 1, outcome |-> "ok"]

----------------------------------------------------------------------------
\* Stage: create_research_plan

Step(id, description, priority, source_types) ==
    [step_id |-> id, description |-> description, priority |-> priority,
     source_types |-> source_types]

ResearchPlan(topic, steps) == [topic |-> topic, steps |-> steps]

ContextPlanSteps ==
    <<Step("1", "Review previous findings", 1, <<"web", "academic">>),
      Step("2", "Explore new developments", 2, <<"news", "academic">>)>>

FallbackPlanSteps ==
    <<Step("1", "Research current applications", 1, <<"web", "news">>),
      Step("2", "Find recent developments", 2, <<"news", "academic">>)>>

\* a plan handed in by a direct caller of the graph (plan reuse)
PresetPlan(topic) ==
    ResearchPlan(topic, <<Step("p1", "Preset step", 3, <<>>)>>)

\* mutant: the fallback plan has one step
create_fallback_plan_one_step(s) ==
    [upd |-> [research_plan |->
                 Some(ResearchPlan(s.topic, SubSeq(FallbackPlanSteps, 1, 1)))],
     msgs |-> <<>>]

create_fallback_plan(s) ==
    [upd |-> [research_plan |-> Some(ResearchPlan(s.topic, FallbackPlanSteps))],
     msgs |-> <<>>]

\* the follow-up branch reads state.user_context.metadata, which exists only if
\* UserContext has that attribute; the AttributeError lands in the except branch
create_research_plan(s) ==
    IF s.follow_up /\ s.user_context # None
    THEN IF SetAttrRaises("metadata")
         THEN [upd |-> create_fallback_plan(s).upd,
               msgs |-> <<"Plan creation error">> \o create_fallback_plan(s).msgs]
         ELSE [upd |-> [research_plan |-> Some(ResearchPlan(s.topic, ContextPlanSteps))],
               msgs |-> <<>>]
    ELSE create_fallback_plan(s)

----------------------------------------------------------------------------
\* Search tools and stage: execute_search

\* mutant: every hit of a step is kept
PerStepLimit_all == MaxHits

PerStepLimit == 2

\* what the search client does for one query
SearchResponses ==
    [kind : {"ok"}, urls : SeqsUpTo(Urls, MaxHits)]
        \cup {[kind |-> "tavily_error", urls |-> <<>>],
              [kind |-> "async_error", urls |-> <<>>]}

RawHit(title, url, snippet) == [title |-> title, url |-> url, snippet |-> snippet]

\* tavily_search_func: a client exception becomes one pseudo-hit
tavily_search_func(resp) ==
    IF resp.kind = "tavily_error"
    THEN <<RawHit("Error", "", "")>>
    ELSE [i \in 1..Len(resp.urls) |-> RawHit("result", resp.urls[i], "content")]

\* async_search: any exception around the tool call gives []
async_search(resp) ==
    IF resp.kind = "async_error" THEN <<>> ELSE tavily_search_func(resp)

Tag(r, st) ==
    [title |-> r.title, url |-> r.url, snippet |-> r.snippet,
     step_id |-> st.step_id, priority |-> st.priority,
     source_type |-> IF st.source_types # <<>> THEN st.source_types[1] ELSE "web"]

\* mutant: the loop over the plan's steps ends at the first failed search
RECURSIVE SearchSteps_stop_on_failure(_, _, _)
SearchSteps_stop_on_failure(steps, resps, i) ==
    IF i > Len(steps) \/ resps[i].kind # "ok" THEN <<>>
    ELSE LET limited == SubSeq(async_search(resps[i]), 1,
                               Min(2, Len(async_search(resps[i])))) IN
         [k \in 1..Len(limited) |-> Tag(limited[k], steps[i])]
             \o SearchSteps_stop_on_failure(steps, resps, i + 1)

RECURSIVE SearchSteps(_, _, _)
SearchSteps(steps, resps, i) ==
    IF i > Len(steps) THEN <<>>
    ELSE LET limited == Take(async_search(resps[i]), PerStepLimit) IN
         [k \in 1..Len(limited) |-> Tag(limited[k], steps[i])]
             \o SearchSteps(steps, resps, i + 1)

execute_search(s, resps) ==
    IF s.research_plan = None
    THEN [upd |-> [search_results |-> <<>>], msgs |-> <<"Search error">>]
    ELSE [upd |-> [search_results |->
                      SearchSteps(s.research_plan[1].steps, resps, 1)],
          msgs |-> <<>>]

----------------------------------------------------------------------------
\* ContentFetcher: fetch_url_content and fetch_with_fallback

BodyLimit == 10000

StartsWith(s, p) == Len(s) >= Len(p) /\ SubSeq(s, 1, Len(p)) = p
Contains(s, w) == \E i \in 1..(Len(s) - Len(w) + 1) : SubSeq(s, i, i + Len(w) - 1) = w

RECURSIVE Doubled(_, _)
Doubled(s, k) == IF k = 0 THEN s ELSE Doubled(s, k - 1) \o Doubled(s, k - 1)

\* a page longer than BodyLimit characters
LongBody == Doubled("x", 14)
Bodies == {"", "page text", LongBody}

Schemes == {"", "ftp://", "http://", "https://"}
Paths == {"", "host/page", "host/research", "host/study", "host/academic",
          "host/news", "host/article", "host/blog", "host/news/research"}
FetchUrls == {sch \o p : sch \in Schemes, p \in Paths}
Snippets == {"", "a snippet"}

\* what session.get does: a response, or an exception
NetOutcomes ==
    [kind : {"response"}, status : {200, 404}, body : Bodies]
        \cup {[kind |-> k, status |-> 0, body |-> ""] :
                 k \in {"transport_error", "timeout"}}

Returned(v) == [value |-> v, raised |-> FALSE]
Raised == [value |-> None, raised |-> TRUE]

\* the body of the try block of fetch_url_content
session_get(net) ==
    IF net.kind # "response" THEN Raised
    ELSE IF net.status = 200
    THEN Returned(Some(IF Len(net.body) > BodyLimit
                       THEN SubSeq(net.body, 1, BodyLimit) ELSE net.body))
    ELSE Returned(None)

\* mutant: no except around the request
fetch_url_content_uncaught(url, net) ==
    IF url = "" \/ ~(StartsWith(url, "http://") \/ StartsWith(url, "https://"))
    THEN Returned(None)
    ELSE session_get(net)

fetch_url_content(url, net) ==
    IF url = "" \/ ~(StartsWith(url, "http://") \/ StartsWith(url, "https://"))
    THEN Returned(None)
    ELSE IF session_get(net).raised THEN Returned(None) ELSE session_get(net)

AcademicSentinel ==
    "This appears to be a research paper or academic article. The full content could not be retrieved due to access restrictions."
NewsSentinel ==
    "This appears to be a news article or blog post. The full content could not be retrieved due to access restrictions."
GenericSentinel ==
    "Web content unavailable due to access restrictions. Please visit the URL directly for full content."

\* mutant: the news keywords are tested before the academic ones
fetch_with_fallback_news_first(url, fallback_snippet, net) ==
    LET content == fetch_url_content(url, net) IN
    IF content.raised THEN Raised
    ELSE IF content.value # None /\ content.value[1] # ""
    THEN Returned(content.value[1])
    ELSE IF fallback_snippet # ""
    THEN Returned("Original content unavailable. Based on search result: "
                      \o fallback_snippet)
    ELSE IF \/ Contains(url, "news")
            \/ Contains(url, "article")
            \/ Contains(url, "blog")
    THEN Returned(NewsSentinel)
    ELSE IF \/ Contains(url, "research")
            \/ Contains(url, "study")
            \/ Contains(url, "academic")
    THEN Returned(AcademicSentinel)
    ELSE Returned(GenericSentinel)

fetch_with_fallback(url, fallback_snippet, net) ==
    LET content == fetch_url_content(url, net) IN
    IF content.raised THEN Raised
    ELSE IF content.value # None /\ content.value[1] # ""
    THEN Returned(content.value[1])
    ELSE IF fallback_snippet # ""
    THEN Returned("Original content unavailable. Based on search result: "
                      \o fallback_snippet)
    ELSE IF \/ Contains(url, "research")
            \/ Contains(url, "study")
            \/ Contains(url, "academic")
    THEN Returned(AcademicSentinel)
    ELSE IF \/ Contains(url, "news")
            \/ Contains(url, "article")
            \/ Contains(url, "blog")
    THEN Returned(NewsSentinel)
    ELSE Returned(GenericSentinel)

----------------------------------------------------------------------------
\* Stage: fetch_and_summarize_sources

\* mutant: every search result is processed
SourceLimit_all == MaxHits + MaxHits

SourceLimit == 2

LlmSummary(r) ==
    [url |-> ValidUrl, title |-> "generated", source_type |-> "web",
     summary |-> "generated", key_points |-> <<"generated">>,
     relevance_score |-> "generated", credibility_score |-> "generated"]

FallbackSummary(r) ==
    [url |-> r.url, title |-> r.title, source_type |-> r.source_type,
     summary |-> "Fallback summary",
     key_points |-> IF r.snippet # "" THEN <<r.snippet>> ELSE <<"Info unavailable">>,
     relevance_score |-> "0.6", credibility_score |-> "0.5"]

\* the loop over search_results[:2]; constructing the fallback SourceSummary for a
\* url that is no HttpUrl raises inside the inner except and ends the loop
RECURSIVE SummarizeLoop(_, _, _, _)
SummarizeLoop(results, outs, i, acc) ==
    IF i > Len(results) THEN [summaries |-> acc, failed |-> FALSE, gens |-> i - 1]
    ELSE IF outs[i] = "ok"
    THEN SummarizeLoop(results, outs, i + 1, Append(acc, LlmSummary(results[i])))
    ELSE IF IsHttpUrl(results[i].url)
    THEN SummarizeLoop(results, outs, i + 1, Append(acc, FallbackSummary(results[i])))
    ELSE [summaries |-> <<>>, failed |-> TRUE, gens |-> i]

fetch_and_summarize_sources(s, outs) ==
    LET r == SummarizeLoop(Take(s.search_results, SourceLimit), outs, 1, <<>>) IN
    IF r.failed
    THEN [upd |-> [source_summaries |-> <<>>],
          msgs |-> <<"Source summarization error">>, gens |-> r.gens]
    ELSE [upd |-> [source_summaries |-> r.summaries], msgs |-> <<>>, gens |-> r.gens]

----------------------------------------------------------------------------
\* Stage: synthesize_brief

SynthOutcomes == {"ok", "offtopic", "fail"}
SaveOutcomes == {"ok", "ctor_fail", "read_fail", "write_fail"}

\* the FinalBrief parsed from the generated text; its fields are the model's
\* own, metadata stays {} (fallback read as false, source_count absent: -1)
GeneratedBrief(s, gen) ==
    [brief_id |-> "generated",
     topic |-> IF gen = "ok" THEN s.topic ELSE OffTopic,
     references |-> <<>>,
     metadata |-> [fallback |-> FALSE, source_count |-> -1]]

\* Reference(url=...) of one of the first two search results raises
FallbackBriefRaises(s) ==
    \E i \in 1..Min(SourceLimit, Len(s.search_results)) :
        ~IsHttpUrl(s.search_results[i].url)

create_fallback_brief(s) ==
    LET refs == Take(s.search_results, SourceLimit) IN
    [brief_id |-> "brief",
     topic |-> s.topic,
     references |-> [i \in 1..Len(refs) |-> refs[i].url],
     metadata |-> [fallback |-> TRUE, source_count |-> Len(s.source_summaries)]]

\* mutant: the save is attempted for every run that names a user
ShouldSaveBrief_any_run(s) == s.user_id # ""

ShouldSaveBrief(s) == s.follow_up /\ s.user_id # ""

NoEffect(hist) == [hist |-> hist, reads |-> 0, writes |-> 0]

\* mutant: a failed generation returns no brief instead of the fallback brief
synthesize_brief_no_fallback(s, hist, gen, save) ==
    IF s.source_summaries = <<>> \/ gen = "fail"
    THEN [upd |-> [final_brief |-> None], msgs |-> <<"Brief synthesis error">>,
          raised |-> FALSE, gens |-> IF s.source_summaries = <<>> THEN 0 ELSE 1,
          io |-> NoEffect(hist)]
    ELSE [upd |-> [final_brief |-> Some(GeneratedBrief(s, gen))], msgs |-> <<>>,
          raised |-> FALSE, gens |-> 1, io |-> NoEffect(hist)]

\* mutant: a failed save is not caught around save_brief and lands in the
\* stage's except branch
synthesize_brief_save_raises(s, hist, gen, save) ==
    IF /\ s.source_summaries # <<>>
       /\ gen # "fail"
       /\ ~(ShouldSaveBrief(s) /\ save \in {"ctor_fail", "write_fail"})
    THEN LET brief == GeneratedBrief(s, gen) IN
         [upd |-> [final_brief |-> Some(brief)], msgs |-> <<>>,
          raised |-> FALSE, gens |-> 1,
          io |-> IF ShouldSaveBrief(s)
                 THEN [hist |-> save_brief(hist, brief, save), reads |-> 1,
                       writes |-> 1]
                 ELSE NoEffect(hist)]
    ELSE [upd |-> [final_brief |->
                      IF FallbackBriefRaises(s) THEN None
                      ELSE Some(create_fallback_brief(s))],
          msgs |-> IF s.source_summaries = <<>> /\ ~FallbackBriefRaises(s)
                   THEN <<>> ELSE <<"Brief synthesis error">>,
          raised |-> FallbackBriefRaises(s),
          gens |-> IF s.source_summaries = <<>> THEN 0 ELSE 1,
          io |-> NoEffect(hist)]

synthesize_brief(s, hist, gen, save) ==
    IF s.source_summaries = <<>>
    THEN IF FallbackBriefRaises(s)
         THEN [upd |-> [final_brief |-> None], msgs |-> <<"Brief synthesis error">>,
               raised |-> TRUE, gens |-> 0, io |-> NoEffect(hist)]
         ELSE [upd |-> [final_brief |-> Some(create_fallback_brief(s))],
               msgs |-> <<>>, raised |-> FALSE, gens |-> 0, io |-> NoEffect(hist)]
    ELSE IF gen = "fail"
    THEN [upd |-> [final_brief |->
                      IF FallbackBriefRaises(s) THEN None
                      ELSE Some(create_fallback_brief(s))],
          msgs |-> <<"Brief synthesis error">>,
          raised |-> FallbackBriefRaises(s), gens |-> 1, io |-> NoEffect(hist)]
    ELSE LET brief == GeneratedBrief(s, gen) IN
         [upd |-> [final_brief |-> Some(brief)], msgs |-> <<>>,
          raised |-> FALSE, gens |-> 1,
          io |-> IF ShouldSaveBrief(s)
                 THEN [hist |-> save_brief(hist, brief, save),
                       reads |-> IF save = "ctor_fail" THEN 0 ELSE 1,
                       writes |-> IF save \in {"ok", "read_fail"} THEN 1 ELSE 0]
                 ELSE NoEffect(hist)]

----------------------------------------------------------------------------
\* Stage: handle_errors

\* mutant: the error list is cleared
handle_errors_clears(s) ==
    [upd |-> [current_step |-> "completed", errors |-> <<>>], msgs |-> <<>>]

\* mutant: the brief is dropped
handle_errors_drops_brief(s) ==
    [upd |-> [current_step |-> "completed", final_brief |-> None], msgs |-> <<>>]

handle_errors(s) == [upd |-> [current_step |-> "completed"], msgs |-> <<>>]

----------------------------------------------------------------------------
\* The graph: edges and branch functions

add_edge ==
    {<<"create_plan", "execute_search">>,
     <<"execute_search", "summarize_sources">>,
     <<"summarize_sources", "synthesize_brief">>,
     <<"handle_errors", END>>}

CheckedNodes == {"create_plan", "execute_search", "summarize_sources"}

\* mutant: an existing plan is reused in follow-up runs too
_should_create_plan_any_run(s) ==
    IF s.research_plan # None THEN "skip" ELSE "continue"

_should_create_plan(s) ==
    IF s.research_plan # None /\ ~s.follow_up THEN "skip" ELSE "continue"

\* mutant: the two outcomes swapped
_check_errors_swapped(s) == IF s.errors # <<>> THEN "success" ELSE "error"

_check_errors(s) == IF s.errors # <<>> THEN "error" ELSE "success"

_next_node(n) ==
    CASE n = "create_plan" -> "execute_search"
      [] n = "execute_search" -> "summarize_sources"
      [] n = "summarize_sources" -> "synthesize_brief"
      [] OTHER -> END

add_conditional_edges(n, s) ==
    CASE n = "summarize_context" ->
            {IF _should_create_plan(s) = "continue" THEN "create_plan"
             ELSE "execute_search"}
      [] n = "synthesize_brief" ->
            {IF _check_errors(s) = "success" THEN END ELSE "handle_errors"}
      [] n \in CheckedNodes ->
            {IF _check_errors(s) = "success" THEN _next_node(n) ELSE "handle_errors"}
      [] OTHER -> {}

\* every edge leaving n fires: the unconditional ones and the branch's choice
Triggered(n, s) ==
    {e[2] : e \in {e \in add_edge : e[1] = n}} \cup add_conditional_edges(n, s)

----------------------------------------------------------------------------
\* Each specification runs one part of the program; the variables of the
\* other parts keep these values

GraphIdle ==
    /\ active = {} /\ ran = {} /\ next = {}
    /\ step = 0
    /\ caller = "none" /\ input = None
    /\ executed = {} /\ junctions = {}
    /\ ctxOutcome = "not run" /\ searchKinds = <<>> /\ healthy = TRUE
    /\ histReads = 0 /\ histWrites = 0 /\ genCalls = 0
    /\ saveOutcome = "not attempted" /\ synthOutcome = "not run"

RunIdle ==
    /\ state = None /\ pending = None
    /\ pc = "idle"
    /\ recorded = <<>>
    /\ searchResps = <<>>
    /\ GraphIdle

FetchIdle == fetchArgs = None /\ fetchResult = None
StoreIdle == savers = None /\ appended = <<>> /\ overlapped = FALSE
AdapterIdle == active_requests = None /\ finals = None /\ cliRun = None

----------------------------------------------------------------------------
\* Initial states: the request and the initial state its caller builds

Requests == [topic : Topics, depth : Depths, user_id : UserIds, follow_up : BOOLEAN]

\* the HTTP route and the CLI command pass only the request's fields
\* mutant: the adapters hand in a plan
AdapterState_with_plan(req) ==
    Apply(ResearchState(req), [research_plan |-> Some(PresetPlan(req.topic))])

AdapterState(req) == ResearchState(req)

\* research_graph.ainvoke called with any other ResearchState: a plan to reuse,
\* an errors list left by the caller
DirectStates(req) ==
    {Apply(ResearchState(req), [research_plan |-> p, errors |-> e]) :
        p \in {None, Some(PresetPlan(req.topic))},
        e \in {<<>>, <<"Prior error">>}}

Init ==
    /\ input \in Requests
    /\ caller \in {"api", "cli", "direct"}
    /\ state \in (IF caller = "direct" THEN DirectStates(input)
                  ELSE {AdapterState(input)})
    /\ pending = state
    /\ active = {"summarize_context"}
    /\ ran = {}
    /\ next = {}
    /\ pc = "running"
    /\ step = 1
    /\ history \in InitHistories
    /\ recorded = <<>>
    /\ executed = {}
    /\ junctions = {}
    /\ ctxOutcome = "not run"
    /\ searchKinds = <<>>
    /\ searchResps = <<>>
    /\ healthy = TRUE
    /\ histReads = 0
    /\ histWrites = 0
    /\ genCalls = 0
    /\ saveOutcome = "not attempted"
    /\ synthOutcome = "not run"
    /\ FetchIdle
    /\ StoreIdle
    /\ AdapterIdle

----------------------------------------------------------------------------
\* One node of the current superstep runs: its update is buffered, its edges
\* are evaluated on the superstep's state with the node's own update applied

CanRun(n) == pc = "running" /\ n \in active \ ran

Local(upd) == Apply(state, upd)

RunNode(n, upd, msgs, raised) ==
    /\ ran' = ran \cup {n}
    /\ pending' = IF raised THEN pending ELSE Apply(pending, upd)
    /\ next' = IF raised THEN next
               ELSE next \cup (Triggered(n, Local(upd)) \ {END})
    /\ pc' = IF raised THEN "raised" ELSE pc
    /\ recorded' = recorded \o msgs
    /\ executed' = executed \cup {[node |-> n, step |-> step]}
    /\ junctions' = IF raised THEN junctions
                    ELSE junctions \cup
                             {[node |-> n, step |-> step,
                               plan |-> Local(upd).research_plan # None,
                               errors |-> Local(upd).errors # <<>>,
                               to |-> Triggered(n, Local(upd))]}
    /\ UNCHANGED <<state, active, step, caller, input>>
    /\ UNCHANGED <<fetchVars, storeVars, adapterVars>>

SummarizeContext ==
    /\ CanRun("summarize_context")
    /\ \E store \in ContextStoreOutcomes, gen \in GenOutcomes :
         LET r == summarize_context(state, history, store, gen) IN
         /\ RunNode("summarize_context", r.upd, r.msgs, FALSE)
         /\ ctxOutcome' = r.outcome
         /\ healthy' = (healthy /\ r.outcome \notin {"ctor_fail", "read_fail", "gen_fail"})
         /\ histReads' = histReads + r.reads
         /\ genCalls' = genCalls + r.gens
    /\ UNCHANGED <<history, searchKinds, searchResps, histWrites, saveOutcome,
                   synthOutcome>>

CreatePlan ==
    /\ CanRun("create_plan")
    /\ LET r == create_research_plan(state) IN
         RunNode("create_plan", r.upd, r.msgs, FALSE)
    /\ UNCHANGED <<history, ctxOutcome, searchKinds, searchResps, healthy, histReads,
                   histWrites, genCalls, saveOutcome, synthOutcome>>

StepCount(s) == IF s.research_plan = None THEN 0 ELSE Len(s.research_plan[1].steps)

ExecuteSearch ==
    /\ CanRun("execute_search")
    /\ \E resps \in [1..StepCount(state) -> SearchResponses] :
         LET r == execute_search(state, resps) IN
         /\ RunNode("execute_search", r.upd, r.msgs, FALSE)
         /\ searchKinds' = [i \in 1..StepCount(state) |-> resps[i].kind]
         /\ healthy' = (healthy /\ \A i \in 1..StepCount(state) : resps[i].kind = "ok")
    /\ UNCHANGED <<history, ctxOutcome, searchResps, histReads, histWrites,
                   genCalls, saveOutcome, synthOutcome>>

SummarizeSources ==
    /\ CanRun("summarize_sources")
    /\ \E outs \in [1..Min(SourceLimit, Len(state.search_results)) -> GenOutcomes] :
         LET r == fetch_and_summarize_sources(state, outs) IN
         /\ RunNode("summarize_sources", r.upd, r.msgs, FALSE)
         /\ genCalls' = genCalls + r.gens
         /\ healthy' = (healthy /\ \A i \in 1..r.gens : outs[i] = "ok")
    /\ UNCHANGED <<history, ctxOutcome, searchKinds, searchResps, histReads, histWrites,
                   saveOutcome, synthOutcome>>

SynthesizeBrief ==
    /\ CanRun("synthesize_brief")
    /\ \E gen \in SynthOutcomes, save \in SaveOutcomes :
         LET r == synthesize_brief(state, history, gen, save) IN
         /\ RunNode("synthesize_brief", r.upd, r.msgs, r.raised)
         /\ history' = r.io.hist
         /\ histReads' = histReads + r.io.reads
         /\ histWrites' = histWrites + r.io.writes
         /\ genCalls' = genCalls + r.gens
         /\ healthy' = (healthy /\ (r.gens = 1 => gen = "ok")
                                /\ (r.gens = 1 /\ gen # "fail" /\ ShouldSaveBrief(state)
                                       => save = "ok"))
         /\ saveOutcome' = IF r.gens = 1 /\ gen # "fail" /\ ShouldSaveBrief(state)
                           THEN save ELSE "not attempted"
         /\ synthOutcome' = IF state.source_summaries = <<>> THEN "no_summaries" ELSE gen
    /\ UNCHANGED <<ctxOutcome, searchKinds, searchResps>>

HandleErrors ==
    /\ CanRun("handle_errors")
    /\ LET r == handle_errors(state) IN
         RunNode("handle_errors", r.upd, r.msgs, FALSE)
    /\ UNCHANGED <<history, ctxOutcome, searchKinds, searchResps, healthy, histReads,
                   histWrites, genCalls, saveOutcome, synthOutcome>>

\* end of a superstep: the buffered updates become the state and the triggered
\* nodes the next superstep; a superstep that triggered nothing ends the run
Superstep ==
    /\ pc = "running"
    /\ ran = active
    /\ state' = pending
    /\ active' = next
    /\ ran' = {}
    /\ next' = {}
    /\ step' = step + 1
    /\ pc' = IF next = {} THEN "done" ELSE "running"
    /\ UNCHANGED <<pending, history, caller, input, recorded, executed, junctions,
                   ctxOutcome, searchKinds, searchResps,
                   healthy, histReads, histWrites, genCalls,
                   saveOutcome, synthOutcome>>
    /\ UNCHANGED <<fetchVars, storeVars, adapterVars>>

Next ==
    \/ SummarizeContext
    \/ CreatePlan
    \/ ExecuteSearch
    \/ SummarizeSources
    \/ SynthesizeBrief
    \/ HandleErrors
    \/ Superstep

Spec == Init /\ [][Next]_vars

\* the event loop runs every scheduled node and every superstep boundary
FairSpec == Spec /\ WF_vars(Next)

----------------------------------------------------------------------------
\* The content fetcher on its own: one call of fetch_with_fallback for every
\* url, snippet and behaviour of the network

FetchCalls == [url : FetchUrls, snippet : Snippets, net : NetOutcomes]

FetchInit ==
    /\ fetchArgs \in FetchCalls
    /\ fetchResult = None
    /\ history = <<>>
    /\ RunIdle
    /\ StoreIdle
    /\ AdapterIdle

FetchWithFallback ==
    /\ fetchResult = None
    /\ fetchResult' = Some(fetch_with_fallback(fetchArgs.url, fetchArgs.snippet,
                                                fetchArgs.net))
    /\ UNCHANGED <<fetchArgs, history, runVars, storeVars, adapterVars>>

FetchNext == FetchWithFallback

FetchSpec == FetchInit /\ [][FetchNext]_vars

----------------------------------------------------------------------------
\* The search stage on its own: one call of execute_search on a state that
\* carries a plan, for every behaviour of the search client on each step

PlannedStates ==
    {Apply(ResearchState(req), [research_plan |-> Some(ResearchPlan(req.topic, steps))]) :
        req \in Requests,
        steps \in {FallbackPlanSteps, ContextPlanSteps, PresetPlan("any").steps}}

SearchInit ==
    /\ state \in PlannedStates
    /\ pending = state
    /\ searchResps \in [1..StepCount(state) -> SearchResponses]
    /\ pc = "idle"
    /\ recorded = <<>>
    /\ history = <<>>
    /\ GraphIdle
    /\ FetchIdle
    /\ StoreIdle
    /\ AdapterIdle

SearchOnce ==
    /\ pc = "idle"
    /\ LET r == execute_search(state, searchResps) IN
         /\ pending' = Apply(state, r.upd)
         /\ recorded' = r.msgs
    /\ pc' = "searched"
    /\ UNCHANGED <<state, active, ran, next, step, caller, input, executed,
                   junctions, ctxOutcome, searchKinds, searchResps, healthy,
                   histReads, histWrites, genCalls, saveOutcome, synthOutcome,
                   history, fetchVars, storeVars, adapterVars>>

SearchNext == SearchOnce

SearchSpec == SearchInit /\ [][SearchNext]_vars

----------------------------------------------------------------------------
\* The history store on its own: the workflow runs of one user that reach the
\* save of synthesize_brief call save_brief, each call reading the file,
\* opening it for writing (which truncates it) and writing the new list, with
\* the event loop free to switch between calls at each of those awaits

Savers == {"run1", "run2"}

SaverIdle == [pc |-> "idle", history |-> <<>>, brief |-> None]

SavesStarted == Len(appended) + Cardinality({p \in Savers : savers[p].pc # "idle"})

\* the FinalBrief of the n-th save, as far as the store reads it
NewBrief(n) == [brief_id |-> "brief-" \o ToString(n), topic |-> "quantum computing"]

StoreInit ==
    /\ history = <<>>
    /\ savers = [p \in Savers |-> SaverIdle]
    /\ appended = <<>>
    /\ overlapped = FALSE
    /\ RunIdle
    /\ FetchIdle
    /\ AdapterIdle

\* save_brief up to the end of get_user_history
SaveRead(p) ==
    /\ savers[p].pc = "idle"
    /\ SavesStarted < MaxSaves
    /\ savers' = [savers EXCEPT ![p] =
                     [pc |-> "read", history |-> get_user_history(history, "ok"),
                      brief |-> Some(NewBrief(SavesStarted + 1))]]
    /\ overlapped' = (overlapped \/ \E q \in Savers \ {p} : savers[q].pc # "idle")
    /\ UNCHANGED <<history, appended, runVars, fetchVars, adapterVars>>

\* aiofiles.open(file, 'w'): the file is empty until the write
SaveOpen(p) ==
    /\ savers[p].pc = "read"
    /\ savers' = [savers EXCEPT ![p].pc = "opened"]
    /\ history' = <<>>
    /\ UNCHANGED <<appended, overlapped, runVars, fetchVars, adapterVars>>

\* the write of the list computed from the history read earlier
SaveWrite(p) ==
    /\ savers[p].pc = "opened"
    /\ history' = save_brief(savers[p].history, savers[p].brief[1], "ok")
    /\ appended' = Append(appended, BriefSummary(savers[p].brief[1]))
    /\ savers' = [savers EXCEPT ![p] = SaverIdle]
    /\ UNCHANGED <<overlapped, runVars, fetchVars, adapterVars>>

StoreNext ==
    \E p \in Savers :
        \/ SaveRead(p)
        \/ SaveOpen(p)
        \/ SaveWrite(p)

StoreSpec == StoreInit /\ [][StoreNext]_vars

----------------------------------------------------------------------------
\* The entry adapters on their own: the API's request table with its
\* background task, and the CLI command.  What research_graph.ainvoke gives
\* them is any final state (final_brief set or not, errors absent, empty or
\* not, handle_errors run or not) or an exception.

RequestIds == {"req1", "req2"}

ABrief == [brief_id |-> "generated", topic |-> "quantum computing",
           references |-> <<>>,
           metadata |-> [fallback |-> FALSE, source_count |-> -1]]

GraphOutcomes ==
    [kind : {"returned"},
     final_brief : {None, Some(ABrief)},
     errors : {None, Some(<<>>), Some(<<"Prior error">>)},
     current_step : {"start", "completed"}]
        \cup {[kind |-> "raised", final_brief |-> None, errors |-> None,
                current_step |-> "start"]}

\* final_state.get("errors", default)
GetErrors(final, default) == IF final.errors = None THEN default ELSE final.errors[1]

\* routes.generate_brief: the entry stored for a new request
NewRequest == [status |-> "processing", result |-> None, errors |-> None]

\* mutant: a run that left errors is reported as failed
execute_research_workflow_by_errors(entry, final) ==
    IF final.kind = "raised"
    THEN [entry EXCEPT !.status = "failed", !.errors = Some(<<"exception">>)]
    ELSE IF final.final_brief # None /\ GetErrors(final, <<>>) = <<>>
    THEN [entry EXCEPT !.status = "completed", !.result = final.final_brief,
                       !.errors = Some(GetErrors(final, <<>>))]
    ELSE [entry EXCEPT !.status = "failed",
                       !.errors = Some(GetErrors(final, <<"Unknown error">>))]

\* mutant: an exception of the workflow is not caught
execute_research_workflow_no_except(entry, final) ==
    IF final.kind = "raised" THEN entry
    ELSE IF final.final_brief # None
    THEN [entry EXCEPT !.status = "completed", !.result = final.final_brief,
                       !.errors = Some(GetErrors(final, <<>>))]
    ELSE [entry EXCEPT !.status = "failed",
                       !.errors = Some(GetErrors(final, <<"Unknown error">>))]

\* the entry after execute_research_workflow's update
execute_research_workflow(entry, final) ==
    IF final.kind = "raised"
    THEN [entry EXCEPT !.status = "failed", !.errors = Some(<<"exception">>)]
    ELSE IF final.final_brief # None
    THEN [entry EXCEPT !.status = "completed", !.result = final.final_brief,
                       !.errors = Some(GetErrors(final, <<>>))]
    ELSE [entry EXCEPT !.status = "failed",
                       !.errors = Some(GetErrors(final, <<"Unknown error">>))]

\* cli generate_brief: what it announces, the errors it prints, what it
\* returns and whether it exits with code 1
cli_generate_brief(final, written) ==
    IF final.kind = "raised"
    THEN [announced |-> "nothing", errors |-> <<"exception">>, returned |-> None,
          exit |-> TRUE]
    ELSE IF final.final_brief # None
    THEN IF written
         THEN [announced |-> "success", errors |-> <<>>,
               returned |-> final.final_brief, exit |-> FALSE]
         ELSE [announced |-> "success", errors |-> <<"exception">>,
               returned |-> None, exit |-> TRUE]
    ELSE [announced |-> "failed", errors |-> GetErrors(final, <<>>),
          returned |-> None, exit |-> FALSE]

AdapterInit ==
    /\ active_requests = [id \in RequestIds |-> None]
    /\ finals = [id \in RequestIds |-> None]
    /\ cliRun = None
    /\ history = <<>>
    /\ RunIdle
    /\ FetchIdle
    /\ StoreIdle

\* POST /brief: a fresh request id gets its entry and its background task
PostBrief ==
    \E id \in RequestIds :
        /\ active_requests[id] = None
        /\ active_requests' = [active_requests EXCEPT ![id] = Some(NewRequest)]
        /\ UNCHANGED <<finals, cliRun, history, runVars, fetchVars, storeVars>>

\* the background task of a request, run once
ExecuteResearchWorkflow ==
    \E id \in RequestIds, final \in GraphOutcomes :
        /\ active_requests[id] # None
        /\ finals[id] = None
        /\ finals' = [finals EXCEPT ![id] = Some(final)]
        /\ active_requests' =
               [active_requests EXCEPT ![id] =
                   Some(execute_research_workflow(active_requests[id][1], final))]
        /\ UNCHANGED <<cliRun, history, runVars, fetchVars, storeVars>>

\* one run of the CLI command
CliGenerateBrief ==
    \E final \in GraphOutcomes, written \in BOOLEAN :
        /\ cliRun = None
        /\ cliRun' = Some([final |-> final,
                           report |-> cli_generate_brief(final, written)])
        /\ UNCHANGED <<active_requests, finals, history, runVars, fetchVars,
                       storeVars>>

AdapterNext ==
    \/ PostBrief
    \/ ExecuteResearchWorkflow
    \/ CliGenerateBrief

AdapterSpec == AdapterInit /\ [][AdapterNext]_vars

\* a background task that was added is run by the server, and ainvoke ends
AdapterFairSpec == AdapterSpec /\ WF_vars(ExecuteResearchWorkflow)

----------------------------------------------------------------------------
\* Properties

Ran(n) == \E e \in executed : e.node = n
Range(f) == {f[i] : i \in DOMAIN f}
MainStages == {"create_plan", "execute_search", "summarize_sources", "synthesize_brief"}

\* C1: a run that reached END has final_brief set or errors non-empty.
C1_BriefOrErrors ==
    pc = "done" => (state.final_brief # None \/ state.errors # <<>>)

\* a completed run that met capability failures and carries the fallback brief
C1_Witness ==
    /\ pc = "done"
    /\ ~healthy
    /\ state.final_brief # None
    /\ state.final_brief[1].metadata.fallback

\* C2 (as claimed): after create_plan, execute_search and summarize_sources the
\* run goes to handle_errors alone when errors is non-empty, and to the next
\* stage alone when it is empty.
C2_ErrorsRouteToErrorHandleOnly ==
    \A j \in junctions :
        j.node \in CheckedNodes =>
            j.to = {IF j.errors THEN "handle_errors" ELSE _next_node(j.node)}

\* C3 (as claimed): in a completed run handle_errors ran iff errors was non-empty
\* at a junction, and it ran whenever a stage recorded an error message.
C3_ErrorHandleIffErrorRecorded ==
    pc = "done" =>
        /\ Ran("handle_errors") <=>
              \E j \in junctions : j.node \in MainStages /\ j.errors
        /\ recorded # <<>> => Ran("handle_errors")

\* C4: after summarize_context the run goes to execute_search, skipping
\* create_plan, exactly when a plan is set and follow_up is false; otherwise
\* create_plan is the one node of the next superstep.
C4_PlanSkippedExactlyOnReuse ==
    \A j \in junctions :
        j.node = "summarize_context" =>
            LET target == IF j.plan /\ ~input.follow_up THEN "execute_search"
                          ELSE "create_plan" IN
            /\ j.to = {target}
            /\ \A e \in executed : e.step = j.step + 1 => e.node = target

\* the plan-reuse branch taken: execute_search ran right after summarize_context
C4_Witness ==
    /\ [node |-> "execute_search", step |-> 2] \in executed
    /\ ~Ran("create_plan")
    /\ ~input.follow_up

\* C5 (as claimed): once handle_errors has executed no stage executes in a later
\* superstep.
C5_ErrorHandleIsTerminal ==
    \A e \in executed :
        e.node = "handle_errors" => \A f \in executed : f.step <= e.step

\* C6 (as claimed): no stage function raises.
C6_NoStageRaises == pc # "raised"

\* C7 (as claimed): in a follow-up run whose history read or context generation
\* failed, errors holds a "Context error" entry and user_context is null once the
\* stage's update is merged, no stage raises, and a completed run has executed
\* the four main stages and carries a final_brief.
ContextFailed == ctxOutcome \in {"ctor_fail", "read_fail", "gen_fail"}

C7_ContextFailureDegrades ==
    (input.follow_up /\ ContextFailed) =>
        /\ step >= 2 => /\ "Context error" \in Range(state.errors)
                        /\ state.user_context = None
        /\ pc # "raised"
        /\ pc = "done" => /\ \A n \in MainStages : Ran(n)
                          /\ state.final_brief # None

\* C8: with follow_up false, user_context is null in every state and the
\* history store is neither read nor written.
C8_NoFollowUpNoHistory ==
    ~input.follow_up =>
        /\ state.user_context = None
        /\ pending.user_context = None
        /\ histReads = 0
        /\ histWrites = 0

\* a completed non-follow-up run of a named user whose brief was generated
C8_Witness ==
    /\ ~input.follow_up
    /\ input.user_id # ""
    /\ pc = "done"
    /\ state.final_brief # None
    /\ ~state.final_brief[1].metadata.fallback

\* C9: a run built from the request alone with follow_up false and every
\* capability call successful never raises, and when completed it has executed
\* exactly summarize_context, create_plan, execute_search, summarize_sources and
\* synthesize_brief, one per superstep, with errors empty and a final_brief for
\* the requested topic.
HappyPath ==
    {[node |-> "summarize_context", step |-> 1],
     [node |-> "create_plan", step |-> 2],
     [node |-> "execute_search", step |-> 3],
     [node |-> "summarize_sources", step |-> 4],
     [node |-> "synthesize_brief", step |-> 5]}

C9_HealthyRunCompletes ==
    (caller # "direct" /\ ~input.follow_up /\ healthy) =>
        /\ pc # "raised"
        /\ pc = "done" => /\ executed = HappyPath
                          /\ state.errors = <<>>
                          /\ state.final_brief # None
                          /\ state.final_brief[1].topic = input.topic

\* such a run completed, with search hits summarized and a generated brief
C9_Witness ==
    /\ caller # "direct"
    /\ ~input.follow_up
    /\ healthy
    /\ pc = "done"
    /\ Len(state.source_summaries) = 2
    /\ ~state.final_brief[1].metadata.fallback

\* C10 (as claimed): when the search fails for every plan step the run ends at
\* END with search_results and source_summaries empty and the fallback brief
\* with no references.
AllSearchesFailed ==
    /\ searchKinds # <<>>
    /\ \A i \in DOMAIN searchKinds : searchKinds[i] # "ok"

C10_SearchFailureGivesFallbackBrief ==
    (AllSearchesFailed /\ pc \in {"done", "raised"}) =>
        /\ pc = "done"
        /\ state.search_results = <<>>
        /\ state.source_summaries = <<>>
        /\ state.final_brief # None
        /\ state.final_brief[1].metadata.fallback
        /\ state.final_brief[1].references = <<>>

\* C11 (as claimed): in a follow-up run whose user has prior briefs and whose
\* history read and context generation succeed, summarize_context records no
\* error and sets user_context with the prior briefs, and create_plan gives
\* the two-step plan that starts with "Review previous findings".
ContextAvailable == ctxOutcome \in {"setattr_fail", "ok"}

C11_FollowUpPlanReusesContext ==
    (input.follow_up /\ ContextAvailable) =>
        /\ "Context error" \notin Range(recorded)
        /\ pending.user_context # None
        /\ pending.user_context # None =>
               Len(pending.user_context[1].previous_briefs) >= 1
        /\ Ran("create_plan") =>
               /\ pending.research_plan # None
               /\ pending.research_plan # None =>
                      pending.research_plan[1].steps = ContextPlanSteps

\* C13 (as claimed): every message a stage recorded is in state.errors, in
\* order, once the stage's superstep is merged, up to the final state.
IsSubSeq(a, b) ==
    \E f \in [DOMAIN a -> DOMAIN b] :
        /\ \A i \in DOMAIN a : b[f[i]] = a[i]
        /\ \A i, j \in DOMAIN a : i < j => f[i] < f[j]

C13_ErrorsAppendOnly ==
    (ran = {} /\ pc # "raised") => IsSubSeq(recorded, state.errors)

\* C14: once execute_search has run, search_results holds at most 2 hits per
\* plan step and at most twice as many hits as the plan has steps, every hit
\* carries the step_id and priority of a plan step, and the hits are grouped
\* in the plan's order.
PlanSteps(s) == IF s.research_plan = None THEN <<>> ELSE s.research_plan[1].steps

StepIndex(steps, hit) ==
    IF \E i \in DOMAIN steps : steps[i].step_id = hit.step_id
    THEN CHOOSE i \in DOMAIN steps : steps[i].step_id = hit.step_id
    ELSE 0

C14_SearchResultsBounded ==
    Ran("execute_search") =>
        LET sr == pending.search_results
            steps == PlanSteps(pending) IN
        /\ Len(sr) <= 2 * Len(steps)
        /\ \A i \in DOMAIN steps :
              Cardinality({k \in DOMAIN sr : sr[k].step_id = steps[i].step_id}) <= 2
        /\ \A k \in DOMAIN sr :
              \E i \in DOMAIN steps : /\ steps[i].step_id = sr[k].step_id
                                      /\ steps[i].priority = sr[k].priority
        /\ \A k, l \in DOMAIN sr :
              k < l => StepIndex(steps, sr[k]) <= StepIndex(steps, sr[l])

\* a two-step plan whose searches both filled their two places
C14_Witness ==
    /\ Ran("execute_search")
    /\ Len(PlanSteps(pending)) = 2
    /\ Len(pending.search_results) = 4

\* C15: once summarize_sources has run, source_summaries has at most
\* min(2, len(search_results)) entries, the i-th being the summary of the i-th
\* search result, and the stage made at most 2 Text-Generation calls.
ContextGenCalls == IF ctxOutcome \in {"gen_fail", "setattr_fail", "ok"} THEN 1 ELSE 0

C15_SummariesBounded ==
    Ran("summarize_sources") =>
        LET sr == pending.search_results
            ss == pending.source_summaries IN
        /\ Len(ss) <= Min(2, Len(sr))
        /\ \A i \in DOMAIN ss : ss[i] \in {LlmSummary(sr[i]), FallbackSummary(sr[i])}
        /\ ~Ran("synthesize_brief") => genCalls <= ContextGenCalls + Min(2, Len(sr))

\* four search results of which two were summarized
C15_Witness ==
    /\ Ran("summarize_sources")
    /\ Len(pending.search_results) = 4
    /\ Len(pending.source_summaries) = 2

\* C16 (as claimed): summarize_sources emits one summary for every hit it
\* processed, the generated one or, when generation failed, the fallback with
\* scores 0.6 and 0.5 and non-empty key_points, and records no error.
C16_GenerationFailureGivesFallbackSummary ==
    Ran("summarize_sources") =>
        LET sr == pending.search_results
            ss == pending.source_summaries IN
        /\ Len(ss) = Min(2, Len(sr))
        /\ \A i \in DOMAIN ss :
              \/ ss[i] = LlmSummary(sr[i])
              \/ /\ ss[i].relevance_score = "0.6"
                 /\ ss[i].credibility_score = "0.5"
                 /\ ss[i].key_points # <<>>
        /\ "Source summarization error" \notin Range(recorded)

\* C19: when the save of the generated brief fails in a follow-up run,
\* synthesize_brief returns that brief, records no error and does not raise;
\* a run started by the API or the CLI then ends at END with errors empty and
\* without handle_errors.
SaveFailed == saveOutcome \in {"ctor_fail", "write_fail"}

C19_SaveFailureKeepsBrief ==
    SaveFailed =>
        /\ input.follow_up
        /\ pc # "raised"
        /\ pending.final_brief = Some(GeneratedBrief(pending, "ok"))
              \/ pending.final_brief = Some(GeneratedBrief(pending, "offtopic"))
        /\ "Brief synthesis error" \notin Range(recorded)
        /\ (caller # "direct" /\ pc = "done") =>
               /\ state.errors = <<>>
               /\ ~Ran("handle_errors")

\* a follow-up API run that ended at END after the history file write failed
C19_Witness ==
    /\ saveOutcome = "write_fail"
    /\ caller = "api"
    /\ pc = "done"
    /\ state.final_brief # None

\* C20: fetch_with_fallback returns a non-empty text and never raises, for
\* every url, every snippet and every outcome of the request.
C20_FetchFallbackNeverEmpty ==
    fetchResult # None =>
        /\ ~fetchResult[1].raised
        /\ fetchResult[1].value # ""
        /\ Len(fetchResult[1].value) >= 1

\* an http url answered 200 with an empty body and no snippet to fall back on
C20_Witness ==
    /\ fetchResult # None
    /\ StartsWith(fetchArgs.url, "http")
    /\ fetchArgs.net.kind = "response"
    /\ fetchArgs.net.status = 200
    /\ fetchArgs.net.body = ""
    /\ fetchArgs.snippet = ""
    /\ fetchResult[1].value = GenericSentinel

\* C17: the stored history never holds more than 10 entries, and after any
\* sequence of n saves made one after the other it is the most recent
\* min(n, 10) saved records in the order they were saved.
AllSaversIdle == \A p \in Savers : savers[p].pc = "idle"

C17_HistoryKeepsLastTen ==
    /\ Len(history) <= 10
    /\ (~overlapped /\ AllSaversIdle) =>
           LET n == Len(appended)
               k == Min(n, 10) IN
           /\ Len(history) = k
           /\ \A i \in 1..k : history[i] = appended[n - k + i]

\* the 11th save done: ten entries are stored and the first one is gone
C17_Witness ==
    /\ ~overlapped
    /\ AllSaversIdle
    /\ Len(appended) = 11
    /\ Len(history) = 10
    /\ history[1] = appended[2]
    /\ history[10] = appended[11]

\* C18 (as claimed): whenever no save is in flight, the stored history holds
\* every one of the ten most recently saved records, however the saves of the
\* user's runs interleaved.
C18_NoLostUpdate ==
    AllSaversIdle =>
        \A i \in DOMAIN appended :
            i > Len(appended) - 10 => appended[i] \in Range(history)

\* C12: the API reports a returned run as completed, with the brief as result,
\* exactly when its final state has final_brief set, whatever errors holds and
\* whether or not handle_errors ran, and as failed with the run's errors
\* otherwise; the CLI announces success or failure by the same test.
C12_ReportedByFinalBriefAlone ==
    /\ \A id \in RequestIds :
          (finals[id] # None /\ finals[id][1].kind = "returned") =>
              LET final == finals[id][1]
                  entry == active_requests[id][1] IN
              IF final.final_brief # None
              THEN /\ entry.status = "completed"
                   /\ entry.result = final.final_brief
                   /\ entry.errors = Some(GetErrors(final, <<>>))
              ELSE /\ entry.status = "failed"
                   /\ entry.result = None
                   /\ entry.errors = Some(GetErrors(final, <<"Unknown error">>))
    /\ (cliRun # None /\ cliRun[1].final.kind = "returned") =>
          LET final == cliRun[1].final
              report == cliRun[1].report IN
          IF final.final_brief # None
          THEN report.announced = "success"
          ELSE /\ report.announced = "failed"
               /\ report.errors = GetErrors(final, <<>>)
               /\ report.returned = None

\* a run that went through handle_errors with errors left and a brief set,
\* reported as completed
C12_Witness ==
    \E id \in RequestIds :
        /\ finals[id] # None
        /\ finals[id][1].final_brief # None
        /\ finals[id][1].errors = Some(<<"Prior error">>)
        /\ finals[id][1].current_step = "completed"
        /\ active_requests[id][1].status = "completed"

\* C22: in execute_search a failed search of one step records no error and
\* does not end the loop: for every step whose search succeeded,
\* search_results holds that step's first two hits, in order.
UrlsOfStep(sr, id) ==
    LET hits == SelectSeq(sr, LAMBDA h : h.step_id = id) IN
    [k \in 1..Len(hits) |-> hits[k].url]

C22_FailedStepDoesNotStopSearch ==
    pc = "searched" =>
        LET steps == PlanSteps(state) IN
        /\ recorded = <<>>
        /\ \A i \in DOMAIN steps :
              searchResps[i].kind = "ok" =>
                  UrlsOfStep(pending.search_results, steps[i].step_id)
                      = SubSeq(searchResps[i].urls, 1, Min(2, Len(searchResps[i].urls)))

\* the first step's search failed and the second step's two hits are there
C22_Witness ==
    /\ pc = "searched"
    /\ Len(searchResps) = 2
    /\ searchResps[1].kind = "async_error"
    /\ searchResps[2].kind = "ok"
    /\ Len(searchResps[2].urls) = 2
    /\ Len(pending.search_results) = 2

\* C21 (as claimed): at most one stage of the run is scheduled in any
\* superstep.
C21_OneStageAtATime == Cardinality(active) <= 1

\* C23 (as claimed): when synthesize_brief returns with source_summaries
\* empty or after a failed generation, final_brief is the fallback brief
\* (fallback true, source_count recorded, at most 2 references from the first
\* search results); with empty summaries no error is recorded, and after a
\* failed generation errors holds "Brief synthesis error" once merged.
SynthReturned == \E j \in junctions : j.node = "synthesize_brief"

C23_SynthesizeFallsBack ==
    (SynthReturned /\ synthOutcome \in {"no_summaries", "fail"}) =>
        /\ pending.final_brief = Some(create_fallback_brief(pending))
        /\ pending.final_brief[1].metadata.fallback
        /\ pending.final_brief[1].metadata.source_count = Len(pending.source_summaries)
        /\ Len(pending.final_brief[1].references) <= 2
        /\ synthOutcome = "no_summaries" =>
               "Brief synthesis error" \notin Range(recorded)
        /\ (synthOutcome = "fail" /\ "synthesize_brief" \notin ran) =>
               "Brief synthesis error" \in Range(state.errors)

\* C24 (as claimed): the history file is written only in a follow-up run, by
\* a synthesize_brief whose generation succeeded, and not in a run where
\* handle_errors ran before synthesize_brief.
C24_HistoryWrittenOnlyOnSuccess ==
    histWrites > 0 =>
        /\ input.follow_up
        /\ synthOutcome \in {"ok", "offtopic"}
        /\ ~\E e, f \in executed : /\ e.node = "handle_errors"
                                    /\ f.node = "synthesize_brief"
                                    /\ e.step < f.step

\* C25: a step of handle_errors sets current_step to "completed" and changes
\* no other field of the state, records nothing and leaves the history file.
C25_ErrorHandleChangesOnlyCurrentStep ==
    [][("handle_errors" \notin ran /\ "handle_errors" \in ran') =>
          /\ pending' = [pending EXCEPT !.current_step = "completed"]
          /\ recorded' = recorded
          /\ history' = history]_vars

\* a completed run in which handle_errors ran: errors and the brief are there
C25_Witness ==
    /\ pc = "done"
    /\ Ran("handle_errors")
    /\ state.current_step = "completed"
    /\ state.errors # <<>>
    /\ state.final_brief # None

\* C26: after create_plan, research_plan is null only with a "Fallback plan
\* error" recorded, and otherwise has exactly 2 steps with priorities 1 and 2
\* and the run's topic; create_plan makes no Text-Generation call.
C26_PlanHasTwoSteps ==
    Ran("create_plan") =>
        LET p == pending.research_plan IN
        /\ p = None => "Fallback plan error" \in Range(recorded)
        /\ p # None => /\ Len(p[1].steps) = 2
                       /\ p[1].steps[1].priority = 1
                       /\ p[1].steps[2].priority = 2
                       /\ p[1].topic = input.topic
        /\ ~Ran("summarize_sources") => genCalls = ContextGenCalls

\* a follow-up run that was handed a one-step plan and planned again
C26_Witness ==
    /\ Ran("create_plan")
    /\ \E j \in junctions : j.node = "summarize_context" /\ j.plan
    /\ pending.research_plan = Some(ResearchPlan(input.topic, FallbackPlanSteps))

\* C27: topic, depth, user_id and follow_up keep the request's values in
\* every state, and final_brief, once set, is never replaced.
InputsKept(s) ==
    /\ s.topic = input.topic
    /\ s.depth = input.depth
    /\ s.user_id = input.user_id
    /\ s.follow_up = input.follow_up

C27_InputsAndBriefKept ==
    /\ [](InputsKept(state) /\ InputsKept(pending))
    /\ [][/\ state.final_brief # None => state'.final_brief = state.final_brief
          /\ pending.final_brief # None => pending'.final_brief = pending.final_brief]_vars

\* a completed run in which handle_errors ran after synthesize_brief
C27_Witness ==
    /\ pc = "done"
    /\ state.final_brief # None
    /\ InputsKept(state)
    /\ \E e, f \in executed : /\ e.node = "synthesize_brief"
                               /\ f.node = "handle_errors"
                               /\ e.step < f.step

\* C30: a run started by the API or the CLI begins with research_plan unset,
\* never takes the plan-skip branch, and executes create_plan in superstep 2,
\* right after summarize_context, and in no other superstep.
C30_AdaptersNeverSkipPlan ==
    caller # "direct" =>
        /\ executed = {} => state.research_plan = None
        /\ \A j \in junctions :
              j.node = "summarize_context" => (~j.plan /\ j.to = {"create_plan"})
        /\ \A e \in executed : e.node = "create_plan" <=> e.step = 2
        /\ pc = "done" => Ran("create_plan")

\* a completed follow-up run of the CLI that planned in superstep 2
C30_Witness ==
    /\ caller = "cli"
    /\ input.follow_up
    /\ pc = "done"
    /\ [node |-> "create_plan", step |-> 2] \in executed

\* C28: when the page itself is not available, fetch_with_fallback returns
\* the text determined by url and snippet alone: the snippet text for a
\* non-empty snippet, else the academic text for a url with "research",
\* "study" or "academic", else the news text for one with "news", "article"
\* or "blog", else the generic text; the same for every way the fetch failed.
PageUnavailable(url, net) ==
    \/ url = ""
    \/ ~(StartsWith(url, "http://") \/ StartsWith(url, "https://"))
    \/ net.kind # "response"
    \/ net.status # 200
    \/ net.body = ""

ExpectedFallback(url, snippet) ==
    IF snippet # ""
    THEN "Original content unavailable. Based on search result: " \o snippet
    ELSE IF \E w \in {"research", "study", "academic"} : Contains(url, w)
    THEN AcademicSentinel
    ELSE IF \E w \in {"news", "article", "blog"} : Contains(url, w)
    THEN NewsSentinel
    ELSE GenericSentinel

C28_FallbackDependsOnUrlAndSnippet ==
    (fetchResult # None /\ PageUnavailable(fetchArgs.url, fetchArgs.net)) =>
        /\ fetchResult[1] = Returned(ExpectedFallback(fetchArgs.url, fetchArgs.snippet))
        /\ \A net \in NetOutcomes :
              PageUnavailable(fetchArgs.url, net) =>
                  fetch_with_fallback(fetchArgs.url, fetchArgs.snippet, net)
                      = fetchResult[1]

\* a url with a news keyword and an academic keyword gets the academic text
C28_Witness ==
    /\ fetchResult # None
    /\ fetchArgs.url = "https://host/news/research"
    /\ fetchArgs.snippet = ""
    /\ fetchArgs.net.kind = "timeout"
    /\ fetchResult[1].value = AcademicSentinel

\* C29: once the background task of a request has ended the request is not
\* "processing", and if ainvoke raised it is "failed" with the exception's
\* text among its errors; an entry starts as "processing", changes only from
\* "processing" to "completed" or "failed", and never changes after that;
\* every submitted request leaves "processing".
StatusOf(id) == active_requests[id][1].status

C29_StatusChangesOnce ==
    /\ [](\A id \in RequestIds :
             finals[id] # None =>
                 /\ StatusOf(id) \in {"completed", "failed"}
                 /\ finals[id][1].kind = "raised" =>
                        /\ StatusOf(id) = "failed"
                        /\ "exception" \in Range(active_requests[id][1].errors[1]))
    /\ [][\A id \in RequestIds :
             /\ (active_requests[id] = None /\ active_requests'[id] # None) =>
                    active_requests'[id][1].status = "processing"
             /\ active_requests[id] # None =>
                    /\ active_requests'[id] # None
                    /\ StatusOf(id) # "processing" =>
                           active_requests'[id] = active_requests[id]]_vars
    /\ \A id \in RequestIds :
          (active_requests[id] # None) ~>
              (active_requests[id] # None /\ StatusOf(id) \in {"completed", "failed"})

\* a request whose workflow raised, recorded as failed
C29_Witness ==
    \E id \in RequestIds :
        /\ finals[id] # None
        /\ finals[id][1].kind = "raised"
        /\ StatusOf(id) = "failed"
        /\ active_requests[id][1].errors = Some(<<"exception">>)

\* C31 (as claimed): no stage, handle_errors included, executes in more than
\* one superstep of a run.
C31_StagesRunAtMostOnce ==
    \A e, f \in executed : e.node = f.node => e.step = f.step

\* C32 (as claimed): when the read inside save_brief fails for a user whose
\* history file holds an entry (summarize_context had read it), the entry is
\* still in the file after the save.
HistoryWasRead == ctxOutcome \in {"gen_fail", "setattr_fail", "ok"}

C32_FailedReadKeepsHistory ==
    (saveOutcome = "read_fail" /\ HistoryWasRead) => OldEntry \in Range(history)

====
